---- MODULE Spec2Model ----
(***************************************************************************)
(* Model of the messaging core of hello-computer: the in-memory store      *)
(* (MemStorage), the POST /api/messages handler with its await points,     *)
(* and the WebSocket fan-out over wss.clients.                             *)
(***************************************************************************)
EXTENDS Integers, Sequences, FiniteSets, TLC

\* ------------------------------------------------------------------ bounds
MaxGroups == 1
MaxMsgs == 2
MaxTime == 2
MaxConns == 2
MaxUsers == 3
MaxCalls == 2

\* ------------------------------------------------------------ value spaces
\* JS null / undefined of an optional string field.
Null == "NULL"

\* An id that randomUUID never produced: names no user / no group.
GhostUser == "u?"
GhostGroup == "g?"

Usernames == {"alice", "bob"}
GroupNames == {"X"}
Contents == {"hi", "hey"}

\* randomUUID(): the k-th id drawn for a kind of entity; distinct for distinct k.
randomUUID(kind, k) == kind \o ToString(k)

\* JS truthiness of an optional string: null, undefined and "" are falsy.
Truthy(x) == x # Null /\ x # ""

Range(s) == {s[i] : i \in 1..Len(s)}

VARIABLES
  users,        \* MemStorage.users, in Map insertion order
  groups,       \* MemStorage.groups, in Map insertion order
  groupMembers, \* MemStorage.groupMembers: group id -> set of user ids
  messages,     \* MemStorage.messages, in Map insertion order
  now,          \* the clock read by new Date()
  conns,        \* per connection: "connecting", "open", "closing" or "closed"
  clients,      \* wss.clients, in Set insertion order
  sent,         \* per connection: the events client.send accepted, in order
  reqs,         \* the request handlers in flight
  dialog        \* the create-group dialog of the signed-in user's sidebar

vars == <<users, groups, groupMembers, messages, now, conns, clients, sent, reqs, dialog>>

storeVars == <<users, groups, groupMembers, messages>>
wsVars == <<conns, clients, sent>>

\* ------------------------------------------------------------- MemStorage
HasUser(id) == \E i \in 1..Len(users) : users[i].id = id

\* getUser(id) for an id that names a user
getUser(id) == users[CHOOSE i \in 1..Len(users) : users[i].id = id]

UserIds == {users[i].id : i \in 1..Len(users)}

getUserByUsername(username) == {users[i] : i \in {j \in 1..Len(users) : users[j].username = username}}

HasGroup(id) == \E i \in 1..Len(groups) : groups[i].id = id

getGroup(id) == groups[CHOOSE i \in 1..Len(groups) : groups[i].id = id]

GroupIds == {groups[i].id : i \in 1..Len(groups)}

\* getGroupMembers(groupId): the users among the member ids (unknown ids are skipped)
getGroupMembers(groupId) ==
  IF groupId \notin DOMAIN groupMembers THEN {}
  ELSE {getUser(u) : u \in {m \in groupMembers[groupId] : HasUser(m)}}

\* getGroupWithMembers(id) for an id that names a group
getGroupWithMembers(id) ==
  LET g == getGroup(id)
      members == getGroupMembers(id)
  IN [id |-> g.id, name |-> g.name, createdBy |-> g.createdBy, createdAt |-> g.createdAt,
      members |-> members, memberCount |-> Cardinality(members)]

\* getGroupsForUser(userId): groupMembers is walked in insertion order, which is
\* the order of groups (createGroup sets both maps, nothing deletes a key)
getGroupsForUser(userId) ==
  LET hit == SelectSeq(groups, LAMBDA g : g.id \in DOMAIN groupMembers
                                          /\ userId \in groupMembers[g.id]
                                          /\ HasGroup(g.id))
  IN [k \in 1..Len(hit) |-> getGroupWithMembers(hit[k].id)]

\* Array.prototype.sort with a comparator that is a difference of integer keys:
\* a stable sort, ascending in keys.  SortPerm gives the permutation of indices.
RECURSIVE InsertStable(_, _, _)
InsertStable(perm, i, keys) ==
  IF perm = <<>> THEN <<i>>
  ELSE IF keys[Head(perm)] <= keys[i]
       THEN <<Head(perm)>> \o InsertStable(Tail(perm), i, keys)
       ELSE <<i>> \o perm

RECURSIVE SortPerm(_, _)
SortPerm(keys, n) ==
  IF n = 0 THEN <<>> ELSE InsertStable(SortPerm(keys, n - 1), n, keys)

ArraySort(s, keys) ==
  LET p == SortPerm(keys, Len(s)) IN [k \in 1..Len(s) |-> s[p[k]]]

\* the comparator of line 249 used where line 200 stands
SortByCreationTime_LatestFirst(msgs) ==
  ArraySort(msgs, [k \in 1..Len(msgs) |-> 0 - msgs[k].createdAt])

\* groupMessages.sort((a, b) => a.createdAt - b.createdAt): oldest first
SortByCreationTime(msgs) ==
  ArraySort(msgs, [k \in 1..Len(msgs) |-> msgs[k].createdAt])

\* messages.sort((a, b) => b.createdAt - a.createdAt): latest first
SortLatestFirst(msgs) ==
  ArraySort(msgs, [k \in 1..Len(msgs) |-> 0 - msgs[k].createdAt])

\* the filter with its second disjunct forgotten
IsBetween_OneWay(msg, userId1, userId2) ==
  msg.senderId = userId1 /\ msg.recipientId = userId2

\* the filter of getMessagesBetweenUsers
IsBetween(msg, userId1, userId2) ==
  \/ msg.senderId = userId1 /\ msg.recipientId = userId2
  \/ msg.senderId = userId2 /\ msg.recipientId = userId1

\* getMessagesBetweenUsers(userId1, userId2): MessageWithUsers[]
getMessagesBetweenUsers(userId1, userId2) ==
  LET relevantMessages == SelectSeq(messages, LAMBDA msg : IsBetween(msg, userId1, userId2))
      sorted == SortByCreationTime(relevantMessages)
      kept == SelectSeq(sorted, LAMBDA msg : HasUser(msg.senderId) /\ HasUser(msg.recipientId))
  IN [k \in 1..Len(kept) |->
        [message |-> kept[k], sender |-> getUser(kept[k].senderId),
         recipient |-> getUser(kept[k].recipientId)]]

\* a listing that keeps the messages of current members only
getGroupMessages_CurrentMembers(groupId) ==
  LET groupMessages == SelectSeq(messages, LAMBDA msg : msg.groupId = groupId)
      sorted == SortByCreationTime(groupMessages)
      kept == SelectSeq(sorted, LAMBDA msg : /\ HasUser(msg.senderId) /\ HasGroup(groupId)
                                             /\ msg.senderId \in groupMembers[groupId])
  IN [k \in 1..Len(kept) |->
        [message |-> kept[k], sender |-> getUser(kept[k].senderId),
         group |-> getGroupWithMembers(groupId)]]

\* getGroupMessages(groupId): MessageWithUsers[]
getGroupMessages(groupId) ==
  LET groupMessages == SelectSeq(messages, LAMBDA msg : msg.groupId = groupId)
      sorted == SortByCreationTime(groupMessages)
      kept == SelectSeq(sorted, LAMBDA msg : HasUser(msg.senderId) /\ HasGroup(groupId))
  IN [k \in 1..Len(kept) |->
        [message |-> kept[k], sender |-> getUser(kept[k].senderId),
         group |-> getGroupWithMembers(groupId)]]

\* The otherUserIds set of getConversationsForUser, in Set insertion order.
RECURSIVE OtherUserIds(_, _)
OtherUserIds(allMessages, userId) ==
  IF allMessages = <<>> THEN <<>>
  ELSE LET n == Len(allMessages)
           seen == OtherUserIds(SubSeq(allMessages, 1, n - 1), userId)
           msg == allMessages[n]
           add == IF Truthy(msg.groupId) THEN <<>>
                  ELSE IF msg.senderId = userId /\ Truthy(msg.recipientId)
                       THEN <<msg.recipientId>>
                       ELSE IF msg.recipientId = userId THEN <<msg.senderId>> ELSE <<>>
       IN IF add = <<>> \/ add[1] \in Range(seen) THEN seen ELSE seen \o add

\* lastMessage = messages[0] || null, as a sequence of at most one message
FirstOrNull(msgs) == IF msgs = <<>> THEN <<>> ELSE <<msgs[1]>>

\* one direct conversation of getConversationsForUser
DirectConversation(allMessages, userId, otherUserId) ==
  LET msgs == SelectSeq(allMessages, LAMBDA msg :
                  ~Truthy(msg.groupId)
                  /\ (\/ msg.senderId = userId /\ msg.recipientId = otherUserId
                      \/ msg.senderId = otherUserId /\ msg.recipientId = userId))
  IN [type |-> "direct", otherUser |-> <<getUser(otherUserId)>>, group |-> <<>>,
      lastMessage |-> FirstOrNull(SortLatestFirst(msgs)), unreadCount |-> 0]

\* a group conversation whose unreadCount counts the group's messages
GroupConversation_CountsMessages(allMessages, group) ==
  LET groupMessages == SelectSeq(allMessages, LAMBDA msg : msg.groupId = group.id)
  IN [type |-> "group", otherUser |-> <<>>, group |-> <<group>>,
      lastMessage |-> FirstOrNull(SortLatestFirst(groupMessages)),
      unreadCount |-> Len(groupMessages)]

\* one group conversation of getConversationsForUser
GroupConversation(allMessages, group) ==
  LET groupMessages == SelectSeq(allMessages, LAMBDA msg : msg.groupId = group.id)
  IN [type |-> "group", otherUser |-> <<>>, group |-> <<group>>,
      lastMessage |-> FirstOrNull(SortLatestFirst(groupMessages)), unreadCount |-> 0]

\* a.lastMessage?.createdAt.getTime() || 0
LastMessageTime(conv) ==
  IF conv.lastMessage = <<>> THEN 0 ELSE conv.lastMessage[1].createdAt

\* the comparator returning timeA - timeB
SortConversations_Ascending(conversations) ==
  ArraySort(conversations,
            [k \in 1..Len(conversations) |-> LastMessageTime(conversations[k])])

\* conversations.sort((a, b) => timeB - timeA)
SortConversations(conversations) ==
  ArraySort(conversations,
            [k \in 1..Len(conversations) |-> 0 - LastMessageTime(conversations[k])])

\* getConversationsForUser(userId): Conversation[]
getConversationsForUser(userId) ==
  LET allMessages == messages
      otherUserIds == SelectSeq(OtherUserIds(allMessages, userId), HasUser)
      direct == [k \in 1..Len(otherUserIds) |->
                   DirectConversation(allMessages, userId, otherUserIds[k])]
      userGroups == getGroupsForUser(userId)
      group == [k \in 1..Len(userGroups) |-> GroupConversation(allMessages, userGroups[k])]
  IN SortConversations(direct \o group)

\* ------------------------------------------------------ store operations
\* MemStorage.createUser
createUser(username) ==
  Append(users, [id |-> randomUUID("u", Len(users) + 1), username |-> username,
                 passwordHash |-> "bcrypt"])

\* POST /api/auth/signup, run without another task between its awaits
Signup(username) ==
  /\ getUserByUsername(username) = {}
  /\ users' = createUser(username)
  /\ UNCHANGED <<groups, groupMembers, messages, now, conns, clients, sent, reqs, dialog>>

\* a Set built from the member ids alone
InitialMembers_WithoutCreator(createdBy, memberIds) == Range(memberIds)

\* new Set([createdBy, ...memberIds])
InitialMembers(createdBy, memberIds) == {createdBy} \cup Range(memberIds)

\* POST /api/groups: insertGroupSchema asks for at least one member id;
\* MemStorage.createGroup sets the group and its member set
CreateGroup(createdBy, name, memberIds) ==
  /\ Len(groups) < MaxGroups
  /\ Len(memberIds) >= 1
  /\ LET id == randomUUID("g", Len(groups) + 1)
     IN /\ groups' = Append(groups, [id |-> id, name |-> name, createdBy |-> createdBy,
                                     createdAt |-> now])
        /\ groupMembers' = [g \in DOMAIN groupMembers \cup {id} |->
                              IF g = id THEN InitialMembers(createdBy, memberIds)
                              ELSE groupMembers[g]]
  /\ UNCHANGED <<users, messages, now, conns, clients, sent, reqs, dialog>>

\* an add that opens a member set for a group id the store does not know
addGroupMember_CreatesEntry(groupId, userId) ==
  [g \in DOMAIN groupMembers \cup {groupId} |->
     IF g = groupId
     THEN (IF g \in DOMAIN groupMembers THEN groupMembers[g] ELSE {}) \cup {userId}
     ELSE groupMembers[g]]

\* an add that takes a present member out again
addGroupMember_Toggle(groupId, userId) ==
  IF groupId \in DOMAIN groupMembers
  THEN [groupMembers EXCEPT ![groupId] = IF userId \in @ THEN @ \ {userId} ELSE @ \cup {userId}]
  ELSE groupMembers

\* MemStorage.addGroupMember
addGroupMember(groupId, userId) ==
  IF groupId \in DOMAIN groupMembers
  THEN [groupMembers EXCEPT ![groupId] = @ \cup {userId}]
  ELSE groupMembers

AddGroupMember(groupId, userId) ==
  /\ groupMembers' = addGroupMember(groupId, userId)
  /\ UNCHANGED <<users, groups, messages, now, conns, clients, sent, reqs, dialog>>

\* MemStorage.removeGroupMember
removeGroupMember(groupId, userId) ==
  IF groupId \in DOMAIN groupMembers
  THEN [groupMembers EXCEPT ![groupId] = @ \ {userId}]
  ELSE groupMembers

RemoveGroupMember(groupId, userId) ==
  /\ groupMembers' = removeGroupMember(groupId, userId)
  /\ UNCHANGED <<users, groups, messages, now, conns, clients, sent, reqs, dialog>>

\* the clock moves on between two reads of new Date()
Tick ==
  /\ now < MaxTime
  /\ now' = now + 1
  /\ UNCHANGED <<users, groups, groupMembers, messages, conns, clients, sent, reqs, dialog>>

\* ---------------------------------------------------- POST /api/messages
\* a refine that only asks for some addressee
ValidAddressing_AtLeastOne(data) ==
  Truthy(data.recipientId) \/ Truthy(data.groupId)

\* the refine of insertMessageSchema
ValidAddressing(data) ==
  \/ Truthy(data.recipientId) /\ ~Truthy(data.groupId)
  \/ ~Truthy(data.recipientId) /\ Truthy(data.groupId)

\* x || null
OrNull(x) == IF Truthy(x) THEN x ELSE Null

\* a message whose id is not fresh: Map.set would put it in the place of m1
createMessage_SameId(senderId, insertMessage) ==
  [id |-> randomUUID("m", 1),
   senderId |-> senderId,
   recipientId |-> OrNull(insertMessage.recipientId),
   groupId |-> OrNull(insertMessage.groupId),
   content |-> insertMessage.content,
   createdAt |-> now]

\* the Message built by MemStorage.createMessage
createMessage(senderId, insertMessage) ==
  [id |-> randomUUID("m", Len(messages) + 1),
   senderId |-> senderId,
   recipientId |-> OrNull(insertMessage.recipientId),
   groupId |-> OrNull(insertMessage.groupId),
   content |-> insertMessage.content,
   createdAt |-> now]

\* a projection that keeps every field
sanitizeUser_Identity(user) == user

\* sanitizeUser: the user without its passwordHash
sanitizeUser(user) == [id |-> user.id, username |-> user.username]

\* group with members: members.map(sanitizeUser)
SanitizedGroup(group) ==
  [group EXCEPT !.members = {sanitizeUser(m) : m \in group.members}]

\* the recipient / group lookup of the handler, as a sequence of at most one
\* object (empty: the lookup returned undefined)
Lookup(message) ==
  IF Truthy(message.recipientId)
  THEN IF HasUser(message.recipientId)
       THEN <<sanitizeUser(getUser(message.recipientId))>> ELSE <<>>
  ELSE IF HasGroup(message.groupId)
       THEN <<SanitizedGroup(getGroupWithMembers(message.groupId))>> ELSE <<>>

\* messageWithUsers
MessageWithUsers(message, sender, other) ==
  [message |-> message, sender |-> sender, other |-> other]

\* the loop without its readyState test
Reached_NoReadyStateCheck(c, thrower) ==
  /\ c \in Range(clients)
  /\ c # thrower
  /\ thrower = 0 \/ (\E i, j \in 1..Len(clients) : clients[i] = c /\ clients[j] = thrower /\ i < j)

\* Reached(c, thrower): whether the forEach over wss.clients reaches client c and sends
\* to it, when the send on client thrower throws (0: no send throws).  The
\* clients before the thrower in Set order are served, those after it are not.
Reached(c, thrower) ==
  /\ c \in Range(clients)
  /\ conns[c] = "open"
  /\ c # thrower
  /\ thrower = 0 \/ (\E i, j \in 1..Len(clients) : clients[i] = c /\ clients[j] = thrower /\ i < j)

\* the result of the broadcast loop on the per-connection event logs
Broadcast(payload, thrower) ==
  [c \in DOMAIN sent |-> IF Reached(c, thrower) THEN Append(sent[c], payload) ELSE sent[c]]

\* the clients whose send can throw: the open ones the loop sends to
Throwers == {0} \cup {c \in Range(clients) : conns[c] = "open"}

Idle == [pc |-> "idle", body |-> <<>>, message |-> <<>>, sender |-> <<>>, other |-> <<>>,
         status |-> 0, threw |-> 0]

Done(status, body, message, threw) ==
  [pc |-> "done", body |-> <<body>>, message |-> message, sender |-> <<>>, other |-> <<>>,
   status |-> status, threw |-> threw]

\* a middleware that lets every request through
requireAuth_Open(r, sessionUserId, request, next) == next

\* requireAuth: if (!req.session.userId) return res.status(401).json(...);
\* otherwise next(), the route's handler
requireAuth(r, sessionUserId, request, next) ==
  IF ~Truthy(sessionUserId)
  THEN /\ reqs[r].pc \in {"idle", "done"}
       /\ reqs' = [reqs EXCEPT ![r] = Done(401, request, <<>>, 0)]
       /\ UNCHANGED <<users, groups, groupMembers, messages, now, conns, clients, sent, dialog>>
  ELSE next

\* a handler that answers 403 to a group message from someone outside the group
PostCreate_MembersOnly(r, senderId, body) ==
  /\ reqs[r].pc \in {"idle", "done"}
  /\ IF ~ValidAddressing(body)
     THEN /\ reqs' = [reqs EXCEPT ![r] = Done(400, body, <<>>, 0)]
          /\ UNCHANGED messages
     ELSE IF /\ Truthy(body.groupId)
             /\ body.groupId \in DOMAIN groupMembers
             /\ senderId \notin groupMembers[body.groupId]
          THEN /\ reqs' = [reqs EXCEPT ![r] = Done(403, body, <<>>, 0)]
               /\ UNCHANGED messages
          ELSE /\ Len(messages) < MaxMsgs
               /\ LET message == createMessage(senderId, body)
                  IN /\ messages' = Append(messages, message)
                     /\ reqs' = [reqs EXCEPT ![r] = [Idle EXCEPT !.pc = "sender",
                                                                 !.body = <<body>>,
                                                                 !.message = <<message>>]]
  /\ UNCHANGED <<users, groups, groupMembers, now, conns, clients, sent, dialog>>

\* The handler up to its first await: safeParse, then the synchronous body of
\* storage.createMessage, which puts the message in the map.
PostCreate(r, senderId, body) ==
  /\ reqs[r].pc \in {"idle", "done"}
  /\ IF ~ValidAddressing(body)
     THEN /\ reqs' = [reqs EXCEPT ![r] = Done(400, body, <<>>, 0)]
          /\ UNCHANGED messages
     ELSE /\ Len(messages) < MaxMsgs
          /\ LET message == createMessage(senderId, body)
             IN /\ messages' = Append(messages, message)
                /\ reqs' = [reqs EXCEPT ![r] = [Idle EXCEPT !.pc = "sender", !.body = <<body>>,
                                                            !.message = <<message>>]]
  /\ UNCHANGED <<users, groups, groupMembers, now, conns, clients, sent, dialog>>

\* await storage.getUser(message.senderId)
PostSender(r) ==
  /\ reqs[r].pc = "sender"
  /\ LET message == reqs[r].message[1]
     IN reqs' = [reqs EXCEPT ![r].pc = "enrich",
                             ![r].sender = IF HasUser(message.senderId)
                                           THEN <<sanitizeUser(getUser(message.senderId))>>
                                           ELSE <<>>]
  /\ UNCHANGED <<users, groups, groupMembers, messages, now, conns, clients, sent, dialog>>

\* if (!sender) 500; await storage.getUser(recipientId) or
\* await storage.getGroupWithMembers(groupId)
PostEnrich(r) ==
  /\ reqs[r].pc = "enrich"
  /\ LET message == reqs[r].message[1]
     IN IF reqs[r].sender = <<>>
        THEN reqs' = [reqs EXCEPT ![r] = Done(500, reqs[r].body[1], reqs[r].message, 0)]
        ELSE reqs' = [reqs EXCEPT ![r].pc = "broadcast", ![r].other = Lookup(message)]
  /\ UNCHANGED <<users, groups, groupMembers, messages, now, conns, clients, sent, dialog>>

\* if (!recipient) 500, if (!group) 500; the broadcast loop; res.json; a send
\* that throws leaves the loop for the catch, which answers 500
PostBroadcast(r, thrower) ==
  /\ reqs[r].pc = "broadcast"
  /\ thrower \in Throwers
  /\ IF reqs[r].other = <<>>
     THEN /\ thrower = 0
          /\ reqs' = [reqs EXCEPT ![r] = Done(500, reqs[r].body[1], reqs[r].message, 0)]
          /\ UNCHANGED sent
     ELSE /\ sent' = Broadcast(MessageWithUsers(reqs[r].message[1], reqs[r].sender[1],
                                                reqs[r].other[1]), thrower)
          /\ reqs' = [reqs EXCEPT ![r] = Done(IF thrower = 0 THEN 200 ELSE 500,
                                              reqs[r].body[1], reqs[r].message, thrower)]
  /\ UNCHANGED <<users, groups, groupMembers, messages, now, conns, clients, dialog>>

\* POST /api/messages run from safeParse to res.json with no other task between
\* its awaits
SendMessage(senderId, body, thrower) ==
  /\ thrower \in Throwers
  /\ ValidAddressing(body)
  /\ Len(messages) < MaxMsgs
  /\ LET message == createMessage(senderId, body)
         other == Lookup(message)
     IN /\ messages' = Append(messages, message)
        /\ IF HasUser(senderId) /\ other # <<>>
           THEN sent' = Broadcast(MessageWithUsers(message, sanitizeUser(getUser(senderId)),
                                                   other[1]), thrower)
           ELSE thrower = 0 /\ UNCHANGED sent
  /\ UNCHANGED <<users, groups, groupMembers, now, conns, clients, reqs, dialog>>

\* ---------------------------------------------------- POST /api/auth/signup
\* The handler up to the await inside createUser: the body passed
\* insertUserSchema; existingUser is looked up; when none is found createUser
\* starts and waits for bcrypt.hash.
SignupCheck(r, username) ==
  /\ reqs[r].pc \in {"idle", "done"}
  /\ IF getUserByUsername(username) # {}
     THEN reqs' = [reqs EXCEPT ![r] = Done(400, [username |-> username], <<>>, 0)]
     ELSE reqs' = [reqs EXCEPT ![r] = [Idle EXCEPT !.pc = "hash",
                                                   !.body = <<[username |-> username]>>]]
  /\ UNCHANGED <<users, groups, groupMembers, messages, now, conns, clients, sent, dialog>>

\* bcrypt.hash has resolved: this.users.set(id, user), session, res.json.  The
\* id, drawn before the await, is named here by the position the user takes.
SignupCreate(r) ==
  /\ reqs[r].pc = "hash"
  /\ Len(users) < MaxUsers
  /\ users' = createUser(reqs[r].body[1].username)
  /\ reqs' = [reqs EXCEPT ![r] = [Done(200, reqs[r].body[1], <<>>, 0) EXCEPT
                                    !.other = <<sanitizeUser(users'[Len(users')])>>]]
  /\ UNCHANGED <<groups, groupMembers, messages, now, conns, clients, sent, dialog>>

\* --------------------------------------------------------- POST /api/groups
\* insertGroupSchema.safeParse: name is any string, memberIds has at least one id
ValidGroup(body) == Len(body.memberIds) >= 1

\* POST /api/groups for the session user createdBy, up to its second await:
\* safeParse, then the synchronous body of storage.createGroup, which sets the
\* group and its member set.
PostGroups(r, createdBy, body) ==
  /\ reqs[r].pc \in {"idle", "done"}
  /\ UNCHANGED <<users, messages, now, conns, clients, sent, dialog>>
  /\ IF ~ValidGroup(body)
     THEN /\ reqs' = [reqs EXCEPT ![r] = Done(400, body, <<>>, 0)]
          /\ UNCHANGED <<groups, groupMembers>>
     ELSE /\ Len(groups) < MaxGroups
          /\ LET id == randomUUID("g", Len(groups) + 1)
                 group == [id |-> id, name |-> body.name, createdBy |-> createdBy,
                           createdAt |-> now]
             IN /\ groups' = Append(groups, group)
                /\ groupMembers' = [g \in DOMAIN groupMembers \cup {id} |->
                                      IF g = id THEN InitialMembers(createdBy, body.memberIds)
                                      ELSE groupMembers[g]]
                /\ reqs' = [reqs EXCEPT ![r] = [Idle EXCEPT !.pc = "members",
                                                            !.body = <<body>>,
                                                            !.other = <<group>>]]

\* await storage.getGroupWithMembers(group.id); members.map(sanitizeUser); res.json
PostGroupsRespond(r) ==
  /\ reqs[r].pc = "members"
  /\ LET id == reqs[r].other[1].id
     IN IF HasGroup(id)
        THEN reqs' = [reqs EXCEPT ![r] =
                        [Done(200, reqs[r].body[1], <<>>, 0) EXCEPT
                           !.other = <<SanitizedGroup(getGroupWithMembers(id))>>]]
        ELSE reqs' = [reqs EXCEPT ![r] = Done(500, reqs[r].body[1], <<>>, 0)]
  /\ UNCHANGED <<users, groups, groupMembers, messages, now, conns, clients, sent, dialog>>

\* --------------------------------------------------------------- GET routes
\* String.prototype.trim on the blanks a query may carry
RECURSIVE TrimStart(_)
TrimStart(s) ==
  IF Len(s) > 0 /\ SubSeq(s, 1, 1) = " " THEN TrimStart(SubSeq(s, 2, Len(s))) ELSE s

RECURSIVE TrimEnd(_)
TrimEnd(s) ==
  IF Len(s) > 0 /\ SubSeq(s, Len(s), Len(s)) = " " THEN TrimEnd(SubSeq(s, 1, Len(s) - 1)) ELSE s

Trim(s) == TrimEnd(TrimStart(s))

UpperCaseLetters == "ABCDEFGHIJKLMNOPQRSTUVWXYZ"
LowerCaseLetters == "abcdefghijklmnopqrstuvwxyz"

\* toLowerCase of one character
LowerChar(ch) ==
  IF \E i \in 1..Len(UpperCaseLetters) : SubSeq(UpperCaseLetters, i, i) = ch
  THEN LET i == CHOOSE i \in 1..Len(UpperCaseLetters) : SubSeq(UpperCaseLetters, i, i) = ch
       IN SubSeq(LowerCaseLetters, i, i)
  ELSE ch

\* a lowering that leaves every character as it is
toLowerCase_Identity(s) == s

\* String.prototype.toLowerCase
RECURSIVE toLowerCase(_)
toLowerCase(s) ==
  IF Len(s) = 0 THEN s
  ELSE LowerChar(SubSeq(s, 1, 1)) \o toLowerCase(SubSeq(s, 2, Len(s)))

\* String.prototype.includes
includes(s, q) == \E i \in 0..(Len(s) - Len(q)) : SubSeq(s, i + 1, i + Len(q)) = q

\* MemStorage.searchUsers
searchUsers(query) ==
  LET lowerQuery == toLowerCase(query)
  IN SelectSeq(users, LAMBDA user : includes(toLowerCase(user.username), lowerQuery))

\* a membership test that lets everyone in
IsMember_Anyone(group, userId) == TRUE

\* group.members.some(m => m.id === req.session.userId)
IsMember(group, userId) == \E m \in group.members : m.id = userId

\* one entry of sanitizedMessages
SanitizedMessage(msg) ==
  IF "group" \in DOMAIN msg
  THEN [message |-> msg.message, sender |-> sanitizeUser(msg.sender),
        group |-> SanitizedGroup(msg.group)]
  ELSE [message |-> msg.message, sender |-> sanitizeUser(msg.sender),
        recipient |-> sanitizeUser(msg.recipient)]

\* one entry of sanitizedConversations
SanitizedConversation(conv) ==
  IF conv.type = "direct" /\ conv.otherUser # <<>>
  THEN [conv EXCEPT !.otherUser = <<sanitizeUser(conv.otherUser[1])>>]
  ELSE IF conv.type = "group" /\ conv.group # <<>>
       THEN [conv EXCEPT !.group = <<SanitizedGroup(conv.group[1])>>]
       ELSE conv

Map(f(_), s) == [k \in 1..Len(s) |-> f(s[k])]

Answer(status, payload) == [status |-> status, payload |-> payload]

\* a direct read that forgets the session user and pairs the counterpart with
\* itself
GetMessages_IgnoresCaller(caller, userId, groupId) ==
  IF ~Truthy(userId) /\ ~Truthy(groupId) THEN Answer(400, <<>>)
  ELSE IF Truthy(groupId)
       THEN IF ~HasGroup(groupId) THEN Answer(404, <<>>)
            ELSE IF ~IsMember(getGroupWithMembers(groupId), caller) THEN Answer(403, <<>>)
                 ELSE Answer(200, Map(SanitizedMessage, getGroupMessages(groupId)))
       ELSE Answer(200, Map(SanitizedMessage, getMessagesBetweenUsers(userId, userId)))

\* GET /api/messages?userId=&groupId= for the session user caller
GetMessages(caller, userId, groupId) ==
  IF ~Truthy(userId) /\ ~Truthy(groupId) THEN Answer(400, <<>>)
  ELSE IF Truthy(groupId)
       THEN IF ~HasGroup(groupId) THEN Answer(404, <<>>)
            ELSE IF ~IsMember(getGroupWithMembers(groupId), caller) THEN Answer(403, <<>>)
                 ELSE Answer(200, Map(SanitizedMessage, getGroupMessages(groupId)))
       ELSE Answer(200, Map(SanitizedMessage, getMessagesBetweenUsers(caller, userId)))

\* GET /api/conversations
GetConversations(caller) ==
  Answer(200, Map(SanitizedConversation, getConversationsForUser(caller)))

\* GET /api/groups
GetGroups(caller) == Answer(200, Map(SanitizedGroup, getGroupsForUser(caller)))

\* GET /api/groups/:groupId
GetGroup(caller, groupId) ==
  IF ~HasGroup(groupId) THEN Answer(404, <<>>)
  ELSE IF ~IsMember(getGroupWithMembers(groupId), caller) THEN Answer(403, <<>>)
       ELSE Answer(200, <<SanitizedGroup(getGroupWithMembers(groupId))>>)

\* GET /api/users/:userId
GetUserById(userId) ==
  IF ~HasUser(userId) THEN Answer(404, <<>>)
  ELSE Answer(200, <<sanitizeUser(getUser(userId))>>)

\* GET /api/users/search?q=: for a missing or blank q the handler calls
\* storage.getAllUsers, which MemStorage does not have; the TypeError goes to
\* the catch, which answers 500
GetUsersSearch(q) ==
  IF ~Truthy(q) \/ Len(Trim(q)) = 0 THEN Answer(500, <<>>)
  ELSE Answer(200, Map(sanitizeUser, searchUsers(q)))

\* the answer of a GET route to the request q
Respond(q) ==
  CASE q.route = "messages" -> GetMessages(q.caller, q.userId, q.groupId)
    [] q.route = "conversations" -> GetConversations(q.caller)
    [] q.route = "groups" -> GetGroups(q.caller)
    [] q.route = "group" -> GetGroup(q.caller, q.groupId)
    [] q.route = "user" -> GetUserById(q.userId)
    [] q.route = "search" -> GetUsersSearch(q.q)

\* a GET handler that sorts the stored log in place before reading it
Get_SortsLog(r, q) ==
  /\ reqs[r].pc \in {"idle", "done"}
  /\ reqs' = [reqs EXCEPT ![r] = [Done(Respond(q).status, q, <<>>, 0) EXCEPT
                                    !.other = <<Respond(q).payload>>]]
  /\ messages' = SortLatestFirst(messages)
  /\ UNCHANGED <<users, groups, groupMembers, now, conns, clients, sent, dialog>>

\* A GET handler from requireAuth to res.json: it reads the store and writes
\* nothing.
Get(r, q) ==
  /\ reqs[r].pc \in {"idle", "done"}
  /\ reqs' = [reqs EXCEPT ![r] = [Done(Respond(q).status, q, <<>>, 0) EXCEPT
                                    !.other = <<Respond(q).payload>>]]
  /\ UNCHANGED <<users, groups, groupMembers, messages, now, conns, clients, sent, dialog>>

\* ------------------------------------------------------- WebSocket server
Remove(s, c) == SelectSeq(s, LAMBDA x : x # c)

\* the connections a broadcast delivers to: members of wss.clients whose
\* readyState is OPEN
LiveConnections == {c \in Range(clients) : conns[c] = "open"}

\* readyState of a socket as one of the three phases of its life: CONNECTING
\* before the connection event, OPEN, and CLOSING or CLOSED once it has left OPEN
Phase(c) ==
  IF conns[c] = "connecting" THEN "Connecting"
  ELSE IF conns[c] = "open" THEN "Open" ELSE "Closed"

\* a connection event for a socket that has already been closed
WsConnection_Reconnects(c) ==
  /\ conns[c] \in {"connecting", "closed"}
  /\ conns' = [conns EXCEPT ![c] = "open"]
  /\ clients' = Append(clients, c)
  /\ UNCHANGED <<users, groups, groupMembers, messages, now, sent, reqs, dialog>>

\* wss.on('connection'): the handshake is done, ws has added the socket to
\* wss.clients with readyState OPEN
WsConnection(c) ==
  /\ conns[c] = "connecting"
  /\ conns' = [conns EXCEPT ![c] = "open"]
  /\ clients' = Append(clients, c)
  /\ UNCHANGED <<users, groups, groupMembers, messages, now, sent, reqs, dialog>>

\* ws.on('error'): the handler logs; the socket is on its way down (readyState
\* CLOSING) and stays in wss.clients until its close event
WsError(c) ==
  /\ conns[c] = "open"
  /\ conns' = [conns EXCEPT ![c] = "closing"]
  /\ UNCHANGED <<users, groups, groupMembers, messages, now, clients, sent, reqs, dialog>>

\* ws.on('close'): ws has taken the socket out of wss.clients
WsClose(c) ==
  /\ conns[c] \in {"open", "closing"}
  /\ conns' = [conns EXCEPT ![c] = "closed"]
  /\ clients' = Remove(clients, c)
  /\ UNCHANGED <<users, groups, groupMembers, messages, now, sent, reqs, dialog>>

\* ------------------------------------------------- create-group dialog
\* The dialog mounted by the sidebar of the signed-in user: the open flag the
\* sidebar holds, the component's four pieces of state, the answer of its
\* user query, whether handleSubmit is waiting for onCreateGroup, and the
\* calls of onCreateGroup made so far.
currentUserId == "u1"

GroupNameTyped == {"", " ", "X", " X "}
RejectionMessages == {"", "400: Invalid group data"}

DialogClosed ==
  [open |-> FALSE, groupName |-> "", selectedUserIds |-> {}, isCreating |-> FALSE,
   error |-> "", allUsers |-> {}, pc |-> "idle", calls |-> <<>>]

\* allUsers.filter(u => u.id !== currentUserId)
availableUsers == dialog.allUsers \ {currentUserId}

\* the two checks of handleSubmit, as the message they set ("" when both pass),
\* without the check of the selection
ValidationError_NameOnly(d) ==
  IF Len(Trim(d.groupName)) = 0 THEN "Please enter a group name" ELSE ""

\* if (!groupName.trim()) ...; if (selectedUserIds.size === 0) ...
ValidationError(d) ==
  IF Len(Trim(d.groupName)) = 0 THEN "Please enter a group name"
  ELSE IF d.selectedUserIds = {} THEN "Please select at least one member"
  ELSE ""

\* handleSubmit up to its await: setError(""), the two checks,
\* setIsCreating(true) and the call onCreateGroup(groupName.trim(), [...selected])
handleSubmit(d) ==
  IF ValidationError(d) # ""
  THEN [d EXCEPT !.error = ValidationError(d)]
  ELSE [d EXCEPT !.error = "", !.isCreating = TRUE, !.pc = "awaiting",
                 !.calls = Append(@, [name |-> Trim(d.groupName),
                                      memberIds |-> d.selectedUserIds])]

\* the try block after the await, then finally
onCreated(d) ==
  [d EXCEPT !.groupName = "", !.selectedUserIds = {}, !.open = FALSE,
            !.isCreating = FALSE, !.pc = "idle"]

\* the catch block, then finally
onFailed(d, message) ==
  [d EXCEPT !.error = IF message # "" THEN message ELSE "Failed to create group",
            !.isCreating = FALSE, !.pc = "idle"]

\* the sidebar's New Group button: setShowCreateGroupDialog(true)
ShowDialog ==
  /\ ~dialog.open
  /\ dialog' = [dialog EXCEPT !.open = TRUE]
  /\ UNCHANGED <<users, groups, groupMembers, messages, now, conns, clients, sent, reqs>>

\* onOpenChange(false) from the dialog itself (Escape, overlay, close icon);
\* the Cancel button does the same but is disabled while isCreating
HideDialog ==
  /\ dialog.open
  /\ dialog' = [dialog EXCEPT !.open = FALSE]
  /\ UNCHANGED <<users, groups, groupMembers, messages, now, conns, clients, sent, reqs>>

\* the user query (enabled while open) settles: the list it was served, or the
\* default [] when the fetch failed
UsersFetched(ids) ==
  /\ dialog.open
  /\ dialog' = [dialog EXCEPT !.allUsers = ids]
  /\ UNCHANGED <<users, groups, groupMembers, messages, now, conns, clients, sent, reqs>>

\* onChange of the name input, disabled while isCreating
TypeGroupName(name) ==
  /\ dialog.open /\ ~dialog.isCreating
  /\ dialog' = [dialog EXCEPT !.groupName = name]
  /\ UNCHANGED <<users, groups, groupMembers, messages, now, conns, clients, sent, reqs>>

\* handleToggleUser(userId) from a row of availableUsers
ToggleUser(userId) ==
  /\ dialog.open
  /\ userId \in availableUsers
  /\ dialog' = [dialog EXCEPT !.selectedUserIds =
                  IF userId \in @ THEN @ \ {userId} ELSE @ \cup {userId}]
  /\ UNCHANGED <<users, groups, groupMembers, messages, now, conns, clients, sent, reqs>>

\* the form's submit, its button disabled while isCreating
Submit ==
  /\ dialog.open /\ ~dialog.isCreating
  /\ Len(dialog.calls) < MaxCalls
  /\ dialog' = handleSubmit(dialog)
  /\ UNCHANGED <<users, groups, groupMembers, messages, now, conns, clients, sent, reqs>>

\* handleCreateGroup resolved: apiRequest answered 2xx and onGroupCreated ran
Created ==
  /\ dialog.pc = "awaiting"
  /\ dialog' = onCreated(dialog)
  /\ UNCHANGED <<users, groups, groupMembers, messages, now, conns, clients, sent, reqs>>

\* handleCreateGroup rethrew what apiRequest threw
Failed(message) ==
  /\ dialog.pc = "awaiting"
  /\ dialog' = onFailed(dialog, message)
  /\ UNCHANGED <<users, groups, groupMembers, messages, now, conns, clients, sent, reqs>>

\* ---------------------------------------------------------- specifications
Connections == 1..MaxConns
Handlers == {"h1", "h2"}

RecipientInputs == {Null, "", GhostUser} \cup UserIds
GroupInputs == {Null, "", GhostGroup} \cup GroupIds
Bodies == [recipientId : RecipientInputs, groupId : GroupInputs, content : Contents]

MemberIdLists ==
  LET ids == UserIds \cup {GhostUser}
  IN {<<a>> : a \in ids} \cup {<<a, b>> : a \in ids, b \in ids}

\* the state after new MemStorage() and registerRoutes()
Init ==
  /\ users = <<>>
  /\ groups = <<>>
  /\ groupMembers = <<>>
  /\ messages = <<>>
  /\ now = 1
  /\ conns = [c \in Connections |-> "connecting"]
  /\ clients = <<>>
  /\ sent = [c \in Connections |-> <<>>]
  /\ reqs = [r \in Handlers |-> Idle]
  /\ dialog = DialogClosed

\* The store under requests that are served one after the other.
Next ==
  \/ \E username \in Usernames : Signup(username)
  \/ \E createdBy \in UserIds, name \in GroupNames, memberIds \in MemberIdLists :
        CreateGroup(createdBy, name, memberIds)
  \/ \E groupId \in GroupIds \cup {GhostGroup}, userId \in UserIds \cup {GhostUser} :
        AddGroupMember(groupId, userId)
  \/ \E groupId \in GroupIds \cup {GhostGroup}, userId \in UserIds \cup {GhostUser} :
        RemoveGroupMember(groupId, userId)
  \/ \E senderId \in UserIds, body \in Bodies : SendMessage(senderId, body, 0)
  \/ Tick

Spec == Init /\ [][Next]_vars

\* A state the program reaches by two signups and two POST /api/groups:
\* alice and bob; g1 = {alice, bob} made by alice, g2 = {bob} made by bob.
Populated ==
  /\ users = <<[id |-> "u1", username |-> "alice", passwordHash |-> "bcrypt"],
               [id |-> "u2", username |-> "bob", passwordHash |-> "bcrypt"]>>
  /\ groups = <<[id |-> "g1", name |-> "X", createdBy |-> "u1", createdAt |-> 1],
                [id |-> "g2", name |-> "X", createdBy |-> "u2", createdAt |-> 1]>>
  /\ groupMembers = [g \in {"g1", "g2"} |-> IF g = "g1" THEN {"u1", "u2"} ELSE {"u2"}]
  /\ messages = <<>>
  /\ now = 1
  /\ conns = [c \in Connections |-> "connecting"]
  /\ clients = <<>>
  /\ sent = [c \in Connections |-> <<>>]
  /\ reqs = [r \in Handlers |-> Idle]
  /\ dialog = DialogClosed

\* Messages sent one request after the other into the populated store.
NextMsgs ==
  \/ \E senderId \in UserIds, body \in Bodies : SendMessage(senderId, body, 0)
  \/ Tick

SpecMsgs == Populated /\ [][NextMsgs]_vars

\* One POST /api/messages handler at a time, every way of addressing a
\* message, and one connection that opens and closes between its awaits.
Addressings == {b \in Bodies : b.content = "hi"}

NextSend ==
  \/ \E senderId \in UserIds, body \in Addressings : PostCreate("h1", senderId, body)
  \/ PostSender("h1")
  \/ PostEnrich("h1")
  \/ PostBroadcast("h1", 0)
  \/ WsConnection(1)
  \/ WsClose(1)

SpecSend == Populated /\ [][NextSend]_vars

\* the bodies that name an existing user or an existing group
Deliverable == {b \in Bodies : /\ ValidAddressing(b)
                                /\ b.content = "hi"
                                /\ b.recipientId \in UserIds \cup {Null}
                                /\ b.groupId \in GroupIds \cup {Null}}

\* One POST /api/messages handler at a time, alice sending to bob or to g1, and
\* connections that open, fail and close between its awaits; a send of the
\* broadcast loop may throw.
FanoutBodies == {b \in Deliverable : b.recipientId \in {"u2", Null} /\ b.groupId \in {"g1", Null}}

NextFanout ==
  \/ \E body \in FanoutBodies : PostCreate("h1", "u1", body)
  \/ PostSender("h1")
  \/ PostEnrich("h1")
  \/ \E thrower \in Throwers : PostBroadcast("h1", thrower)
  \/ \E c \in Connections : WsConnection(c)
  \/ \E c \in Connections : WsError(c)
  \/ \E c \in Connections : WsClose(c)

SpecFanout == Populated /\ [][NextFanout]_vars

\* Two POST /api/messages handlers that interleave at their awaits, and one
\* connection.
NextRT ==
  \/ \E r \in Handlers, senderId \in UserIds, body \in Deliverable : PostCreate(r, senderId, body)
  \/ \E r \in Handlers : PostSender(r)
  \/ \E r \in Handlers : PostEnrich(r)
  \/ \E r \in Handlers : PostBroadcast(r, 0)
  \/ WsConnection(1)
  \/ WsClose(1)

SpecRT == Populated /\ [][NextRT]_vars

\* Two POST /api/auth/signup handlers that interleave at the await of
\* bcrypt.hash, from the empty directory.
NextSignup ==
  \/ \E r \in Handlers, username \in Usernames : SignupCheck(r, username)
  \/ \E r \in Handlers : SignupCreate(r)

SpecSignup == Init /\ [][NextSignup]_vars

\* A state the program reaches by two signups: alice and bob, no group yet.
Registered ==
  /\ users = <<[id |-> "u1", username |-> "alice", passwordHash |-> "bcrypt"],
               [id |-> "u2", username |-> "bob", passwordHash |-> "bcrypt"]>>
  /\ groups = <<>>
  /\ groupMembers = <<>>
  /\ messages = <<>>
  /\ now = 1
  /\ conns = [c \in Connections |-> "connecting"]
  /\ clients = <<>>
  /\ sent = [c \in Connections |-> <<>>]
  /\ reqs = [r \in Handlers |-> Idle]
  /\ dialog = DialogClosed

\* the names a POST /api/groups body may carry: a name, the empty string, a blank
GroupNameInputs == GroupNames \cup {"", " "}

\* the memberIds a body may carry: the empty list included
GroupBodies == [name : GroupNameInputs, memberIds : MemberIdLists \cup {<<>>}]

\* POST /api/groups requests served one after the other by the registered users.
NextGroups ==
  \/ \E createdBy \in UserIds, body \in GroupBodies : PostGroups("h1", createdBy, body)
  \/ PostGroupsRespond("h1")
  \/ Tick

SpecGroups == Registered /\ [][NextGroups]_vars

\* Either user writes to bob or to g1 in the populated store, and
\* addGroupMember / removeGroupMember are called between the requests on g1
\* and on an unknown group, for known and unknown user ids.
NextMembers ==
  \/ \E groupId \in {"g1", GhostGroup}, userId \in UserIds \cup {GhostUser} :
        AddGroupMember(groupId, userId)
  \/ \E groupId \in {"g1", GhostGroup}, userId \in UserIds \cup {GhostUser} :
        RemoveGroupMember(groupId, userId)
  \/ \E senderId \in UserIds, body \in FanoutBodies : SendMessage(senderId, body, 0)
  \/ Tick

SpecMembers == Populated /\ [][NextMembers]_vars

\* the requests the GET routes are asked
GetRequests ==
  [route : {"messages"}, caller : UserIds, userId : {Null, "u2", GhostUser},
   groupId : {Null} \cup GroupIds \cup {GhostGroup}]
  \cup [route : {"conversations", "groups"}, caller : UserIds]
  \cup [route : {"group"}, caller : UserIds, groupId : GroupIds \cup {GhostGroup}]
  \cup [route : {"user"}, userId : {"u2", GhostUser}]
  \cup [route : {"search"}, q : {Null, "", " ", "B", "x"}]

\* In the populated store bob leaves and rejoins g1, alice writes to bob or to
\* g1 while a connection listens, and the GET routes are asked between these
\* requests.
NextRead ==
  \/ AddGroupMember("g1", "u2")
  \/ RemoveGroupMember("g1", "u2")
  \/ \E body \in FanoutBodies : SendMessage("u1", body, 0)
  \/ WsConnection(1)
  \/ \E q \in GetRequests : Get("h1", q)

SpecRead == Populated /\ [][NextRead]_vars

\* the usernames and the queries of the search example
SearchNames == {"Alice", "alias", "MALI", "bob"}
SearchQueries == {"ali", "ALI", "Li", "lia", "b", "z"}

\* Users sign up one after the other and GET /api/users/search is asked
\* between the signups.
NextSearch ==
  \/ \E username \in SearchNames : Signup(username)
  \/ \E q \in SearchQueries : Get("h1", [route |-> "search", q |-> q])

SpecSearch == Init /\ [][NextSearch]_vars

\* the conversation list and the direct history, read while messages are
\* stored and the clock advances
ListBodies == {b \in Deliverable : b.groupId \in {"g1", Null}}
ListRequests ==
  [route : {"conversations"}, caller : UserIds]
    \cup [route : {"messages"}, caller : UserIds, userId : UserIds \cup {GhostUser},
          groupId : {Null}]

NextList ==
  \/ \E senderId \in UserIds, body \in ListBodies : SendMessage(senderId, body, 0)
  \/ Tick
  \/ \E q \in ListRequests : Get("h1", q)

SpecList == Populated /\ [][NextList]_vars

\* the protected routes, called with and without a session: every request
\* carries its session user as caller, Null when there is no session
Sessions == {"u1", Null}
AuthMessages ==
  {b \in [recipientId : {"u2", Null}, groupId : {"g1", Null}, content : {"hi"},
          caller : Sessions] : ValidAddressing(b)}
AuthGroups == [name : {"X"}, memberIds : {<<"u2">>, <<>>}, caller : Sessions]
AuthGets ==
  [route : {"messages"}, caller : Sessions, userId : {"u2"}, groupId : {Null}]
    \cup [route : {"conversations", "groups"}, caller : Sessions]
    \cup [route : {"group"}, caller : Sessions, groupId : {"g1"}]
    \cup [route : {"user"}, caller : Sessions, userId : {"u2"}]
    \cup [route : {"search"}, caller : Sessions, q : {"b"}]

NextAuth ==
  \/ \E body \in AuthMessages :
        requireAuth("h1", body.caller, body, PostCreate("h1", body.caller, body))
  \/ PostSender("h1")
  \/ PostEnrich("h1")
  \/ PostBroadcast("h1", 0)
  \/ \E body \in AuthGroups :
        requireAuth("h1", body.caller, body, PostGroups("h1", body.caller, body))
  \/ PostGroupsRespond("h1")
  \/ \E q \in AuthGets : requireAuth("h1", q.caller, q, Get("h1", q))
  \/ WsConnection(1)

SpecAuth == Registered /\ [][NextAuth]_vars

\* the group registry alone: sign-ups, group creation and membership changes,
\* with ids the store does not know among the inputs
NextRegistry ==
  \/ \E username \in Usernames : Signup(username)
  \/ \E createdBy \in UserIds, name \in GroupNames : CreateGroup(createdBy, name, <<"u1">>)
  \/ \E groupId \in GroupIds \cup {GhostGroup}, userId \in UserIds \cup {GhostUser} :
        AddGroupMember(groupId, userId)
  \/ \E groupId \in GroupIds \cup {GhostGroup}, userId \in UserIds \cup {GhostUser} :
        RemoveGroupMember(groupId, userId)
  \/ Tick

SpecRegistry == Init /\ [][NextRegistry]_vars

\* the dialog in the hands of its user, with onCreateGroup settling either way
NextDialog ==
  \/ ShowDialog
  \/ HideDialog
  \/ \E ids \in {{}, UserIds} : UsersFetched(ids)
  \/ \E name \in GroupNameTyped : TypeGroupName(name)
  \/ \E userId \in UserIds : ToggleUser(userId)
  \/ Submit
  \/ Created
  \/ \E message \in RejectionMessages : Failed(message)

SpecDialog == Registered /\ [][NextDialog]_vars

\* deliverable messages from either user, u1 being no member of g2, each
\* handled step by step while connection 1 opens and closes
NextOutsiders ==
  \/ \E senderId \in UserIds, body \in Deliverable : PostCreate("h1", senderId, body)
  \/ PostSender("h1")
  \/ PostEnrich("h1")
  \/ PostBroadcast("h1", 0)
  \/ WsConnection(1)
  \/ WsClose(1)

SpecOutsiders == Populated /\ [][NextOutsiders]_vars

\* ------------------------------------------------------------------ claims
\* position of a stored message in the log (Map insertion order)
LogIndex(message) == CHOOSE i \in 1..Len(messages) : messages[i].id = message.id

\* the direct messages exchanged by u and c, in either direction
DirectBetween(u, c) ==
  {m \in Range(messages) : /\ m.recipientId # Null
                           /\ \/ m.senderId = u /\ m.recipientId = c
                              \/ m.senderId = c /\ m.recipientId = u}

\* the ids that some direct message pairs with u
Counterparts(u) ==
  {m.recipientId : m \in {x \in Range(messages) : x.recipientId # Null /\ x.senderId = u}}
  \cup {m.senderId : m \in {x \in Range(messages) : x.recipientId = u}}

BothSet(body) == Truthy(body.recipientId) /\ Truthy(body.groupId)
NeitherSet(body) == ~Truthy(body.recipientId) /\ ~Truthy(body.groupId)

\* C1: a sendMessage request with both recipientId and groupId set (a non-empty
\* id), or with neither set, is answered 400 and its step stores no message;
\* every message of the log has exactly one of recipientId and groupId non-null.
C1_XorAddressing ==
  /\ [](\A r \in Handlers :
          (reqs[r].pc = "done" /\ (BothSet(reqs[r].body[1]) \/ NeitherSet(reqs[r].body[1])))
             => (reqs[r].status = 400 /\ reqs[r].message = <<>>))
  /\ [](\A i \in 1..Len(messages) :
          (messages[i].recipientId = Null) # (messages[i].groupId = Null))
  /\ [][\A r \in Handlers :
          (reqs'[r] # reqs[r] /\ reqs'[r].status = 400) => messages' = messages]_vars

C1_Witness ==
  \E r \in Handlers :
     /\ reqs[r].pc = "done" /\ reqs[r].status = 400
     /\ BothSet(reqs[r].body[1])
     /\ messages # <<>>

\* C2: a finished sendMessage whose recipientId names no user, or whose groupId
\* names no group, was answered NotFound (404), its message is not in the log
\* and no connection was sent an event for it.
C2_MissingTargetNotFound ==
  \A r \in Handlers :
     (/\ reqs[r].pc = "done"
      /\ ValidAddressing(reqs[r].body[1])
      /\ \/ Truthy(reqs[r].body[1].recipientId) /\ ~HasUser(reqs[r].body[1].recipientId)
         \/ Truthy(reqs[r].body[1].groupId) /\ ~HasGroup(reqs[r].body[1].groupId))
     => /\ reqs[r].status = 404
        /\ \A m \in Range(reqs[r].message) : m \notin Range(messages)
        /\ \A c \in Connections : \A k \in 1..Len(sent[c]) :
              sent[c][k].message \notin Range(reqs[r].message)

\* C3: listConversations(u) holds exactly one direct conversation per
\* counterpart of u in a direct message, exactly one group conversation per
\* group whose members include u, and nothing else.
C3_ConversationsExact ==
  \A u \in UserIds :
     LET convs == getConversationsForUser(u)
         mine == {g \in GroupIds : u \in groupMembers[g]}
     IN /\ \A c \in Counterparts(u) :
              Cardinality({k \in 1..Len(convs) :
                              convs[k].type = "direct" /\ convs[k].otherUser[1].id = c}) = 1
        /\ \A g \in mine :
              Cardinality({k \in 1..Len(convs) :
                              convs[k].type = "group" /\ convs[k].group[1].id = g}) = 1
        /\ Len(convs) = Cardinality(Counterparts(u)) + Cardinality(mine)

\* the direct message between u and c with the greatest creation time, the one
\* inserted last among those of that time
LatestBetween(u, c) ==
  CHOOSE m \in DirectBetween(u, c) :
     \A x \in DirectBetween(u, c) :
        \/ x.createdAt < m.createdAt
        \/ x.createdAt = m.createdAt /\ LogIndex(x) <= LogIndex(m)

\* C4: the lastMessage of every direct conversation of listConversations(u) is
\* the latest direct message of the pair, the one inserted last among equal
\* creation times.
C4_LastMessageIsLatest ==
  \A u \in UserIds :
     LET convs == getConversationsForUser(u)
     IN \A k \in 1..Len(convs) :
           convs[k].type = "direct"
              => convs[k].lastMessage = <<LatestBetween(u, convs[k].otherUser[1].id)>>

\* C5: listConversations(u) is in descending order of lastMessage creation
\* time, and no conversation without a message precedes one with a message.
C5_ConversationsSorted ==
  \A u \in UserIds :
     LET convs == getConversationsForUser(u)
     IN \A i, j \in 1..Len(convs) :
           i < j => /\ LastMessageTime(convs[i]) >= LastMessageTime(convs[j])
                    /\ convs[i].lastMessage = <<>> => convs[j].lastMessage = <<>>

C5_Witness ==
  \E u \in UserIds :
     LET convs == getConversationsForUser(u)
     IN /\ Len(convs) = 3
        /\ convs[1].type = "direct" /\ convs[2].type = "group"
        /\ LastMessageTime(convs[1]) > LastMessageTime(convs[2])
        /\ convs[2].lastMessage # <<>>
        /\ convs[3].lastMessage = <<>>

\* C6: for all users s and r, messagesBetween(s, r) = messagesBetween(r, s), and
\* the sequence holds each direct message between s and r once and no other.
C6_BetweenSymmetric ==
  \A s \in UserIds, r \in UserIds :
     LET res == getMessagesBetweenUsers(s, r)
     IN /\ res = getMessagesBetweenUsers(r, s)
        /\ {res[k].message : k \in 1..Len(res)} = DirectBetween(s, r)
        /\ Len(res) = Cardinality(DirectBetween(s, r))

C6_Witness ==
  \E s \in UserIds, r \in UserIds :
     LET res == getMessagesBetweenUsers(s, r)
     IN /\ s # r
        /\ Len(res) = 2
        /\ res[1].message.senderId = s
        /\ res[2].message.senderId = r

\* C7: messagesBetween(a, b) is in ascending creation time, and messages of
\* equal creation time are in the order of the log.
C7_BetweenAscendingStable ==
  \A a \in UserIds, b \in UserIds :
     LET res == getMessagesBetweenUsers(a, b)
     IN \A i, j \in 1..Len(res) :
           i < j => /\ res[i].message.createdAt <= res[j].message.createdAt
                    /\ res[i].message.createdAt = res[j].message.createdAt
                          => LogIndex(res[i].message) < LogIndex(res[j].message)

C7_Witness ==
  \E a \in UserIds, b \in UserIds :
     LET res == getMessagesBetweenUsers(a, b)
     IN /\ Len(res) = 2
        /\ res[1].message.createdAt = res[2].message.createdAt
        /\ res[1].message.senderId # res[2].message.senderId

\* the event of the handler r that is about to broadcast
EventOf(r) == MessageWithUsers(reqs[r].message[1], reqs[r].sender[1], reqs[r].other[1])

\* C8: when a stored message is broadcast and the request succeeds, every
\* connection that is open gets exactly that one event appended, whoever its
\* user is, and every other connection gets nothing; a closed connection is
\* not in wss.clients.
C8_BroadcastToAllOpen ==
  /\ [][\A r \in Handlers :
          (reqs[r].pc = "broadcast" /\ reqs'[r].pc = "done" /\ reqs'[r].status = 200)
             => \A c \in Connections :
                   sent'[c] = IF conns[c] = "open" THEN Append(sent[c], EventOf(r))
                              ELSE sent[c]]_vars
  /\ [](\A c \in Connections : conns[c] = "closed" => c \notin Range(clients))

C8_Witness ==
  \E c1 \in Connections, c2 \in Connections :
     /\ conns[c1] = "open" /\ Len(sent[c1]) = 2
     /\ sent[c1][1].message.recipientId # Null
     /\ conns[c2] = "closed" /\ Len(sent[c2]) = 1

\* C9: when the send on one open connection fails during a broadcast, every
\* other open connection still gets the event, the failing connection leaves
\* wss.clients, and the request is answered 200.
C9_SendFailureIsolated ==
  [][\A r \in Handlers :
       (reqs[r].pc = "broadcast" /\ reqs'[r].pc = "done" /\ reqs'[r].threw # 0)
          => /\ \A c \in Connections :
                   (conns[c] = "open" /\ c # reqs'[r].threw)
                      => sent'[c] = Append(sent[c], EventOf(r))
             /\ reqs'[r].threw \notin Range(clients')
             /\ reqs'[r].status = 200]_vars

\* C10: a connection that was sent the events of two messages was sent them in
\* the order in which the messages were put in the log.
C10_DeliveryInCommitOrder ==
  \A c \in Connections :
     \A i, j \in 1..Len(sent[c]) :
        i < j => LogIndex(sent[c][i].message) < LogIndex(sent[c][j].message)
\* C11: no two users of the directory have the same username, and a finished
\* signup that was answered "already taken" (400) is not the origin of any user.
C11_UsernamesUnique ==
  \A i, j \in 1..Len(users) : users[i].username = users[j].username => i = j

\* the handlers that have finished a POST /api/groups
GroupRequests == {r \in Handlers : reqs[r].pc = "done" /\ "memberIds" \in DOMAIN reqs[r].body[1]}

\* name.trim() is empty
IsBlank(name) == name \in {"", " "}

\* C12: a group that createGroup has made has the member set {creator} united
\* with the ids of memberIds, whatever memberIds repeats or contains; the
\* members listed for it are the users of exactly those ids, the creator among
\* them, each listed once.
C12_MembersAreCreatorAndIds ==
  \A r \in GroupRequests :
     reqs[r].status = 200
        => LET group == reqs[r].other[1]
               ids == {group.createdBy} \cup Range(reqs[r].body[1].memberIds)
           IN /\ groupMembers[group.id] = ids
              /\ {m.id : m \in group.members} = ids \cap UserIds
              /\ group.memberCount = Cardinality(ids \cap UserIds)
              /\ group.createdBy \in {m.id : m \in group.members}

C12_Witness ==
  \E r \in GroupRequests :
     /\ reqs[r].status = 200
     /\ Len(reqs[r].body[1].memberIds) = 2
     /\ reqs[r].body[1].memberIds[1] = reqs[r].body[1].memberIds[2]
     /\ reqs[r].other[1].createdBy \notin Range(reqs[r].body[1].memberIds)
     /\ reqs[r].other[1].memberCount = 2

\* C13: a finished createGroup whose name is blank was refused (400) and made no
\* group and no membership entry; one whose name is not blank was not refused,
\* whatever its memberIds.
C13_OnlyBlankNameRefused ==
  \A r \in GroupRequests :
     IF IsBlank(reqs[r].body[1].name)
     THEN /\ reqs[r].status = 400
          /\ \A i \in 1..Len(groups) : ~IsBlank(groups[i].name)
     ELSE reqs[r].status = 200

\* C14: addMember(g, u) for a member u of g, and removeMember(g, u) for a
\* non-member or an unknown group, change nothing; after a step that has the
\* effect of addMember(g, u) (of removeMember(g, u)) the same call changes
\* nothing more; u is a member after the add and not after the remove.
C14_MembershipIdempotent ==
  /\ [](\A g \in GroupIds \cup {GhostGroup}, u \in UserIds \cup {GhostUser} :
          /\ (g \in DOMAIN groupMembers /\ u \in groupMembers[g])
                => addGroupMember(g, u) = groupMembers
          /\ (g \notin DOMAIN groupMembers \/ u \notin groupMembers[g])
                => removeGroupMember(g, u) = groupMembers)
  /\ [][\A g \in GroupIds \cup {GhostGroup}, u \in UserIds \cup {GhostUser} :
          /\ groupMembers' = addGroupMember(g, u)
                => /\ addGroupMember(g, u)' = groupMembers'
                   /\ g \in GroupIds => u \in groupMembers'[g]
          /\ groupMembers' = removeGroupMember(g, u)
                => /\ removeGroupMember(g, u)' = groupMembers'
                   /\ g \in GroupIds => u \notin groupMembers'[g]]_vars

C14_Witness ==
  /\ groupMembers["g1"] = {"u2", GhostUser}
  /\ messages # <<>>

\* the messages of the log addressed to group g
GroupLog(g) == {m \in Range(messages) : m.groupId = g}

\* the most recent message of g's log: greatest creation time, the one
\* inserted last among those of that time; empty when g has no message
LatestOfGroup(g) ==
  IF GroupLog(g) = {} THEN <<>>
  ELSE <<CHOOSE m \in GroupLog(g) :
            \A x \in GroupLog(g) :
               \/ x.createdAt < m.createdAt
               \/ x.createdAt = m.createdAt /\ LogIndex(x) <= LogIndex(m)>>

\* the positions of listConversations(u) that hold the conversation of group g
GroupEntries(u, g) ==
  LET convs == getConversationsForUser(u)
  IN {k \in 1..Len(convs) : convs[k].type = "group" /\ convs[k].group[1].id = g}

\* C15: in every state, whatever addMember and removeMember did before,
\* listConversations(u) holds no conversation for a group u is not a member
\* of, and for a group g u is a member of exactly one, whose lastMessage is the
\* most recent message of g's whole log (null when the log is empty).
C15_MembershipSeenAtOnce ==
  \A u \in UserIds, g \in GroupIds :
     IF u \in groupMembers[g]
     THEN /\ Cardinality(GroupEntries(u, g)) = 1
          /\ \A k \in GroupEntries(u, g) :
                getConversationsForUser(u)[k].lastMessage = LatestOfGroup(g)
     ELSE GroupEntries(u, g) = {}

\* the Message sequence of messagesForGroup(g)
GroupResult(g) ==
  LET res == getGroupMessages(g) IN [k \in 1..Len(res) |-> res[k].message]

\* C17: messagesForGroup(g) holds each message of the log addressed to g once
\* and no other, whoever its sender is and whether or not the sender is still
\* a member, in ascending creation time; a step that changes a member set
\* leaves the log and every messagesForGroup(g) as they were.
C17_GroupLogKeptAcrossMembership ==
  /\ [](\A g \in GroupIds :
          LET seq == GroupResult(g)
          IN /\ Range(seq) = GroupLog(g)
             /\ Len(seq) = Cardinality(GroupLog(g))
             /\ \A i, j \in 1..Len(seq) : i < j => seq[i].createdAt <= seq[j].createdAt)
  /\ [][groupMembers' # groupMembers
          => /\ messages' = messages
             /\ \A g \in GroupIds : GroupResult(g)' = GroupResult(g)]_vars

C17_Witness ==
  \E g \in GroupIds :
     /\ Len(GroupResult(g)) = 2
     /\ GroupResult(g)[1].createdAt < GroupResult(g)[2].createdAt
     /\ GroupResult(g)[1].senderId \notin groupMembers[g]
     /\ GroupResult(g)[2].senderId \in groupMembers[g]

\* C18: in every step the log after the step starts with the log before it:
\* no stored message is dropped, moved or changed in any field, and ids stay
\* distinct.
C18_LogAppendOnly ==
  /\ [][/\ Len(messages') >= Len(messages)
        /\ SubSeq(messages', 1, Len(messages)) = messages]_vars
  /\ [](\A i, j \in 1..Len(messages) : messages[i].id = messages[j].id => i = j)

C18_Witness ==
  /\ Len(messages) = 2
  /\ messages[1].createdAt < messages[2].createdAt
  /\ messages[1].recipientId # Null
  /\ messages[2].groupId # Null
  /\ messages[1].senderId \notin groupMembers[messages[2].groupId]

\* the handlers that have finished a GET request
GetAnswered == {r \in Handlers : reqs[r].pc = "done" /\ "route" \in DOMAIN reqs[r].body[1]}

\* C16: a listMessages(caller, {groupId}) request that is answered in a step
\* gets NotFound (404) and no message when the group does not exist, Forbidden
\* (403) and no message when the caller is not a member of the group in that
\* state, and otherwise 200 with exactly the messages of messagesForGroup.
C16_GroupReadGuarded ==
  [][\A r \in Handlers :
       (/\ reqs'[r] # reqs[r]
        /\ reqs'[r].pc = "done"
        /\ "route" \in DOMAIN reqs'[r].body[1]
        /\ reqs'[r].body[1].route = "messages"
        /\ Truthy(reqs'[r].body[1].groupId))
       => LET q == reqs'[r].body[1]
              payload == reqs'[r].other[1]
          IN IF q.groupId \notin GroupIds
             THEN reqs'[r].status = 404 /\ payload = <<>>
             ELSE IF q.caller \notin groupMembers[q.groupId]
                  THEN reqs'[r].status = 403 /\ payload = <<>>
                  ELSE /\ reqs'[r].status = 200
                       /\ [k \in 1..Len(payload) |-> payload[k].message]
                             = GroupResult(q.groupId)]_vars

C16_Witness ==
  \E r \in GetAnswered :
     /\ reqs[r].body[1].route = "messages"
     /\ reqs[r].body[1].groupId = "g1"
     /\ reqs[r].body[1].caller = "u2"
     /\ reqs[r].status = 403
     /\ "u2" \notin groupMembers["g1"]
     /\ GroupLog("g1") # {}

\* a user object that still carries its credential
HasCredential(user) == "passwordHash" \in DOMAIN user

\* the user objects embedded in one entry of a message list
UsersOfMessage(msg) ==
  {msg.sender} \cup (IF "group" \in DOMAIN msg THEN msg.group.members ELSE {msg.recipient})

\* the user objects embedded in one conversation
UsersOfConversation(conv) ==
  Range(conv.otherUser) \cup UNION {g.members : g \in Range(conv.group)}

\* the user objects embedded in the answer payload of the request q
UsersOfAnswer(q, payload) ==
  CASE q.route = "messages" -> UNION {UsersOfMessage(m) : m \in Range(payload)}
    [] q.route = "conversations" -> UNION {UsersOfConversation(c) : c \in Range(payload)}
    [] q.route \in {"groups", "group"} -> UNION {g.members : g \in Range(payload)}
    [] q.route \in {"user", "search"} -> Range(payload)

\* the user objects embedded in a broadcast event
UsersOfEvent(event) ==
  {event.sender} \cup (IF "members" \in DOMAIN event.other THEN event.other.members
                       ELSE {event.other})

\* C19: no user object embedded in an event sent to a connection, nor in the
\* answer of a GET route (message list, conversation list, group list, group,
\* user lookup, user search), carries a passwordHash.
C19_NoCredentialLeaves ==
  /\ \A c \in Connections : \A k \in 1..Len(sent[c]) :
        \A user \in UsersOfEvent(sent[c][k]) : ~HasCredential(user)
  /\ \A r \in GetAnswered :
        \A user \in UsersOfAnswer(reqs[r].body[1], reqs[r].other[1]) : ~HasCredential(user)

C19_Witness ==
  /\ \E c \in Connections : \E k \in 1..Len(sent[c]) :
        "members" \in DOMAIN sent[c][k].other /\ sent[c][k].other.memberCount = 2
  /\ \E r \in GetAnswered :
        /\ reqs[r].body[1].route = "conversations"
        /\ Len(reqs[r].other[1]) = 2
        /\ reqs[r].other[1][1].type = "direct"
        /\ reqs[r].other[1][2].type = "group"
        /\ Cardinality(UsersOfAnswer(reqs[r].body[1], reqs[r].other[1])) = 2

\* two characters that are the same letter in either case, or the same character
SameLetter(a, b) ==
  \/ a = b
  \/ \E i \in 1..Len(UpperCaseLetters) :
        {a, b} = {SubSeq(UpperCaseLetters, i, i), SubSeq(LowerCaseLetters, i, i)}

\* name contains q as a substring, compared without regard to case
ContainsIgnoringCase(name, q) ==
  \E i \in 0..(Len(name) - Len(q)) :
     \A k \in 1..Len(q) : SameLetter(SubSeq(name, i + k, i + k), SubSeq(q, k, k))

\* C20: searchUsers(q) is the sequence of the users whose username contains q
\* without regard to case, in the order of their creation; "ali" finds Alice,
\* alias and MALI and never bob.
C20_SearchIgnoresCase ==
  /\ \A q \in SearchQueries :
        searchUsers(q) = SelectSeq(users, LAMBDA user : ContainsIgnoringCase(user.username, q))
  /\ {user.username : user \in Range(searchUsers("ali"))}
        = {"Alice", "alias", "MALI"} \cap {user.username : user \in Range(users)}

C20_Witness ==
  /\ Len(users) = 4
  /\ [k \in 1..3 |-> searchUsers("ali")[k].username] = <<"MALI", "Alice", "alias">>
  /\ Len(searchUsers("ali")) = 3
  /\ \E r \in GetAnswered :
        /\ reqs[r].body[1].route = "search" /\ reqs[r].body[1].q = "ALI"
        /\ reqs[r].status = 200
        /\ reqs[r].other[1] = Map(sanitizeUser, searchUsers("ali"))

\* the handlers that have finished a GET /api/users/search
SearchAnswered == {r \in GetAnswered : reqs[r].body[1].route = "search"}

\* C21: searchUsers("") and searchUsers(" ") are the whole directory, and a
\* finished GET /api/users/search whose q is missing, empty or blank was
\* answered 200 with every user of the directory.
C21_BlankQueryListsAll ==
  /\ searchUsers("") = users
  /\ searchUsers(" ") = users
  /\ \A r \in SearchAnswered :
        (~Truthy(reqs[r].body[1].q) \/ IsBlank(reqs[r].body[1].q))
           => /\ reqs[r].status = 200
              /\ reqs[r].other[1] = Map(sanitizeUser, users)

\* the conversation a message belongs to, as user u sees it: the group, or the
\* other party of the direct exchange
ConversationOf(m, u) ==
  IF Truthy(m.groupId) THEN <<"group", m.groupId>>
  ELSE <<"direct", IF m.senderId = u THEN m.recipientId ELSE m.senderId>>

\* the same key, read off an entry of the conversation list
ConversationKey(conv) ==
  IF conv.type = "group" THEN <<"group", conv.group[1].id>>
  ELSE <<"direct", conv.otherUser[1].id>>

\* the message a step has just stored, as a sequence of at most one message
JustStored ==
  IF Len(messages') = Len(messages) + 1 THEN <<messages'[Len(messages')]>> ELSE <<>>

\* C22: right after a message is stored in conversation c, listConversations
\* returns c first for the sender and, for a direct message, for the recipient.
C22_NewMessageMovesFirst ==
  [][\A k \in 1..Len(JustStored) :
        LET m == JustStored[k]
            readers == IF Truthy(m.groupId) THEN {m.senderId}
                       ELSE {m.senderId, m.recipientId}
        IN \A u \in readers :
              LET convs == getConversationsForUser(u)'
              IN /\ convs # <<>>
                 /\ ConversationKey(convs[1]) = ConversationOf(m, u)]_vars

\* C23: a connection only moves Connecting -> Open -> Closed; it is a live
\* connection exactly while Open (registered when it opens, out of the
\* registry once closed); a connection that has left Open never returns to it
\* and is sent nothing afterwards.
C23_ConnectionLifecycle ==
  /\ [][\A c \in Connections :
          /\ Phase(c)' # Phase(c)
                => <<Phase(c), Phase(c)'>> \in {<<"Connecting", "Open">>, <<"Open", "Closed">>}
          /\ Phase(c) = "Closed" => sent'[c] = sent[c]]_vars
  /\ [](\A c \in Connections :
          /\ c \in LiveConnections <=> Phase(c) = "Open"
          /\ conns[c] \in {"connecting", "closed"} => c \notin Range(clients))

C23_Witness ==
  \E c, d \in Connections :
     /\ conns[c] = "closed" /\ sent[c] # <<>>
     /\ conns[d] = "closing" /\ Len(sent[d]) > Len(sent[c])

\* C24: every conversation that listConversations returns, direct or group,
\* with or without messages, has unreadCount = 0.
C24_UnreadCountZero ==
  \A u \in UserIds :
     LET convs == getConversationsForUser(u)
     IN \A k \in 1..Len(convs) : convs[k].unreadCount = 0

C24_Witness ==
  \E u \in UserIds :
     LET convs == getConversationsForUser(u)
     IN /\ Len(messages) = 2
        /\ \E i, j \in 1..Len(convs) :
              /\ convs[i].type = "direct" /\ convs[i].lastMessage # <<>>
              /\ convs[j].type = "group" /\ convs[j].lastMessage # <<>>
              /\ convs[i].unreadCount = 0 /\ convs[j].unreadCount = 0

\* the handlers that finish a GET /api/conversations in this step
ListingNow ==
  {r \in Handlers : /\ reqs'[r] # reqs[r]
                    /\ reqs'[r].pc = "done"
                    /\ "route" \in DOMAIN reqs'[r].body[1]
                    /\ reqs'[r].body[1].route = "conversations"}

\* C25: listing a user's conversations leaves users, groups, memberships and
\* the message log as they were, and what it returns is the projection of that
\* store alone, so that a second listing for the same user right after it,
\* reading the same store, returns the same sequence.
C25_ListIsPureProjection ==
  [][\A r \in ListingNow :
        /\ <<users, groups, groupMembers, messages>>' = <<users, groups, groupMembers, messages>>
        /\ reqs'[r].status = 200
        /\ \E u \in UserIds :
              /\ u = reqs'[r].body[1].caller
              /\ reqs'[r].other[1] = GetConversations(u).payload]_vars

C25_Witness ==
  /\ reqs["h1"].pc = "done"
  /\ "route" \in DOMAIN reqs["h1"].body[1]
  /\ reqs["h1"].body[1].route = "conversations"
  /\ Len(reqs["h1"].other[1]) = 3
  /\ Len(messages) = 2
  /\ messages[1].createdAt < messages[2].createdAt
  /\ reqs["h1"].other[1] = GetConversations(reqs["h1"].body[1].caller).payload

\* the handlers that have finished a GET /api/messages?userId= without groupId
DirectReads ==
  {r \in GetAnswered : /\ reqs[r].body[1].route = "messages"
                       /\ Truthy(reqs[r].body[1].userId)
                       /\ ~Truthy(reqs[r].body[1].groupId)}

\* C27: every message a direct read returns has the session user who asked as
\* its sender or as its recipient.
C27_DirectReadOwnMessagesOnly ==
  \A r \in DirectReads :
     /\ reqs[r].status = 200
     /\ \A k \in 1..Len(reqs[r].other[1]) :
           LET m == reqs[r].other[1][k].message
           IN m.senderId = reqs[r].body[1].caller \/ m.recipientId = reqs[r].body[1].caller

C27_Witness ==
  \E r \in DirectReads :
     /\ Len(reqs[r].other[1]) = 1
     /\ Len(messages) = 2
     /\ reqs[r].body[1].caller # reqs[r].body[1].userId
     /\ \E i \in 1..2 : /\ ~Truthy(messages[i].groupId)
                        /\ messages[i].senderId = reqs[r].body[1].userId
                        /\ messages[i].recipientId = reqs[r].body[1].userId

\* the handlers whose request is a message addressed to an existing group by a
\* user who is not one of its members
OutsiderSends ==
  {r \in Handlers : /\ reqs[r].message # <<>>
                    /\ Truthy(reqs[r].message[1].groupId)
                    /\ reqs[r].message[1].groupId \in GroupIds
                    /\ reqs[r].message[1].senderId
                          \notin groupMembers[reqs[r].message[1].groupId]}

\* C26: a message addressed to an existing group is stored whoever sends it;
\* one from a user who is not a member of the group is in the log, is broadcast
\* to the open connections, is answered 200, and is then part of what every
\* member reads as the group's messages.
C26_NonMemberMaySend ==
  /\ [](\A r \in OutsiderSends :
          LET m == reqs[r].message[1]
          IN /\ m \in Range(messages)
             /\ reqs[r].pc = "done"
                   => /\ reqs[r].status = 200
                      /\ \E k \in 1..Len(getGroupMessages(m.groupId)) :
                            getGroupMessages(m.groupId)[k].message = m
                      /\ \A u \in groupMembers[m.groupId] :
                            /\ GetMessages(u, Null, m.groupId).status = 200
                            /\ \E k \in 1..Len(GetMessages(u, Null, m.groupId).payload) :
                                  GetMessages(u, Null, m.groupId).payload[k].message = m)
  /\ [][\A r \in Handlers :
          (/\ reqs[r].pc \in {"idle", "done"} /\ reqs'[r] # reqs[r]
           /\ ValidAddressing(reqs'[r].body[1])
           /\ reqs'[r].body[1].groupId \in GroupIds)
             => /\ reqs'[r].pc = "sender"
                /\ messages' = Append(messages, reqs'[r].message[1])]_vars
  /\ [][\A r \in OutsiderSends :
          (reqs[r].pc = "broadcast" /\ reqs'[r].pc = "done")
             => \A c \in LiveConnections : sent'[c] = Append(sent[c], EventOf(r))]_vars

C26_Witness ==
  \E r \in OutsiderSends :
     /\ reqs[r].pc = "done" /\ reqs[r].status = 200
     /\ conns[1] = "open"
     /\ sent[1] # <<>>
     /\ sent[1][Len(sent[1])].message = reqs[r].message[1]
     /\ GroupLog(reqs[r].message[1].groupId) = {reqs[r].message[1]}

\* the handlers that take up a request in this step
Arriving ==
  {r \in Handlers : /\ reqs[r].pc \in {"idle", "done"}
                    /\ \/ reqs'[r].pc # reqs[r].pc
                       \/ reqs'[r].body # reqs[r].body
                       \/ reqs'[r].status # reqs[r].status}

\* C28: a request to a protected route that carries no session user is
\* answered 401 at once, with nothing read into the answer, and the step stores
\* nothing and sends nothing; so no stored message or group is owned by nobody.
C28_UnauthenticatedRefused ==
  /\ [][\A r \in Arriving :
          ~Truthy(reqs'[r].body[1].caller)
             => /\ reqs'[r].pc = "done"
                /\ reqs'[r].status = 401
                /\ reqs'[r].other = <<>> /\ reqs'[r].message = <<>>
                /\ <<users, groups, groupMembers, messages>>'
                      = <<users, groups, groupMembers, messages>>
                /\ sent' = sent]_vars
  /\ [](/\ \A i \in 1..Len(messages) : Truthy(messages[i].senderId)
        /\ \A i \in 1..Len(groups) : Truthy(groups[i].createdBy))

C28_Witness ==
  /\ reqs["h1"].pc = "done" /\ reqs["h1"].status = 401
  /\ "content" \in DOMAIN reqs["h1"].body[1]
  /\ ValidAddressing(reqs["h1"].body[1])
  /\ conns[1] = "open" /\ sent[1] # <<>>
  /\ groups # <<>>
  /\ Len(messages) = 1

\* the ids of the groups getGroupsForUser returns, in order
GroupIdsFor(u) == [k \in 1..Len(getGroupsForUser(u)) |-> getGroupsForUser(u)[k].id]

\* C29: the group map and the membership map have the same keys at all times;
\* creating a group adds its key to both in the same step and no other step
\* adds or drops a key, an add or remove for an unknown group included;
\* getGroupsForUser(u) is exactly the existing groups whose member set holds u.
C29_RegistryKeysAgree ==
  /\ [](DOMAIN groupMembers = GroupIds)
  /\ [](\A u \in UserIds \cup {GhostUser} :
          /\ Range(GroupIdsFor(u)) = {g \in GroupIds : u \in groupMembers[g]}
          /\ Len(GroupIdsFor(u)) = Cardinality(Range(GroupIdsFor(u))))
  /\ [][IF Len(groups') = Len(groups) + 1
        THEN /\ groups'[Len(groups')].id \notin DOMAIN groupMembers
             /\ DOMAIN groupMembers' = DOMAIN groupMembers \cup {groups'[Len(groups')].id}
        ELSE /\ groups' = groups
             /\ DOMAIN groupMembers' = DOMAIN groupMembers]_vars

C29_Witness ==
  /\ Len(groups) = 1
  /\ DOMAIN groupMembers = {groups[1].id}
  /\ groupMembers[groups[1].id] = {GhostUser}
  /\ \A u \in UserIds : getGroupsForUser(u) = <<>>
  /\ Len(getGroupsForUser(GhostUser)) = 1

\* C30: in the create-group dialog a submit with a blank name or with no member
\* selected sets an error and calls nothing, so every call of onCreateGroup
\* carries a trimmed, non-empty name and at least one member; when the call
\* succeeds the name and the selection are cleared and the dialog is closed;
\* when it fails the name, the selection and the open flag are as they were and
\* an error is shown; and isCreating is true only while the call is pending.
C30_DialogSubmit ==
  /\ \A k \in 1..Len(dialog.calls) :
        /\ dialog.calls[k].name # "" /\ dialog.calls[k].name = Trim(dialog.calls[k].name)
        /\ dialog.calls[k].memberIds # {}
  /\ dialog.isCreating <=> dialog.pc = "awaiting"
  /\ (dialog.pc = "idle" /\ (IsBlank(dialog.groupName) \/ dialog.groupName = ""
                              \/ dialog.selectedUserIds = {}))
        => /\ handleSubmit(dialog).error # ""
           /\ handleSubmit(dialog).calls = dialog.calls
           /\ ~handleSubmit(dialog).isCreating
           /\ handleSubmit(dialog).pc = "idle"
  /\ dialog.pc = "awaiting"
        => /\ onCreated(dialog).groupName = "" /\ onCreated(dialog).selectedUserIds = {}
           /\ ~onCreated(dialog).open /\ ~onCreated(dialog).isCreating
           /\ \A message \in RejectionMessages :
                 /\ onFailed(dialog, message).groupName = dialog.groupName
                 /\ onFailed(dialog, message).selectedUserIds = dialog.selectedUserIds
                 /\ onFailed(dialog, message).open = dialog.open
                 /\ onFailed(dialog, message).error # ""
                 /\ ~onFailed(dialog, message).isCreating

C30_Witness ==
  /\ Len(dialog.calls) = 2
  /\ dialog.open /\ dialog.pc = "idle" /\ ~dialog.isCreating
  /\ dialog.error = "Failed to create group"
  /\ dialog.groupName = " X " /\ dialog.selectedUserIds = {"u2"}
  /\ dialog.calls[2] = [name |-> "X", memberIds |-> {"u2"}]

====
